---- MODULE Spec2Model ----
(***************************************************************************)
(* Model of strix.llm.antigravity: the file-backed AccountManager          *)
(* (auth.py) and the retry/failover loop of                                *)
(* AntigravityClient.stream_generate_content (client.py).                  *)
(*                                                                         *)
(* Specifications: SpecPool (the operations of one AccountManager), Spec   *)
(* (one invocation of stream_generate_content), SpecBudget (an invocation  *)
(* while accounts are added, with fairness), SpecShared (two invocations   *)
(* and a second client over one file), SpecLogin (authenticate_account),   *)
(* SpecAuth (ensure_auth, login by login), SpecParse (the line loop over   *)
(* one response body) and SpecRateLimited (an invocation whose requests    *)
(* are all answered 429).                                                  *)
(*                                                                         *)
(* Indices are kept as in the Python source: active_index is 0-based and   *)
(* may be negative or stale after load(); sequences are 1-based, so the    *)
(* element at Python index i is accounts[i + 1].                           *)
(***************************************************************************)
EXTENDS Integers, Sequences, FiniteSets, TLC

(* ---- bounds ---- *)
MaxAccounts == 2        \* largest pool
MaxTime == 2            \* last clock value
MaxOut == 2             \* most text increments one invocation is fed
MaxTimeouts == 2        \* most handle_request() calls that time out
MaxLines == 2           \* most lines of a response given to the line loop

(* ---- program constants ---- *)
ExpiryBuffer == 60      \* auth.py:338
RetryFactor == 3        \* client.py:76
DefaultRetryAfter == 1  \* client.py:114

(* CODE_ASSIST_ENDPOINT_FALLBACKS: DAILY, AUTOPUSH, PROD, in this order *)
CODE_ASSIST_ENDPOINT_FALLBACKS == <<"daily", "autopush", "prod">>

(* ---- input domains ---- *)
FileIndexes == -1..(MaxAccounts + 1)      \* activeIndex values found in a file
FileExpires == {60, 62}                  \* "expires" values found in a file
ExpiresIn == {60, 62}                    \* expires_in of a token response
Latency == {0, 1}                        \* clock ticks a refresh call takes
RetryAfterHeaders == {"absent", "int", "date"}
StatusKinds == {"429", "5xx", "4xx", "2xx", "connect_error"}
Requests == {1, 2}                       \* invocations running on one client

(* a line of a 2xx response, by what the line loop looks at: raw is        *)
(* "empty", "other" (no data: prefix) or "data"; payload is what follows   *)
(* the prefix: "blank", "bad_json", "array" (JSON, not an object) or       *)
(* "object"; envelope says whether the object has a "response" key, and    *)
(* whether its value is an object or null; candidates, parts and text      *)
(* describe the object the candidates are looked up in: candidates is      *)
(* "absent", "empty", "bad" (first element not an object) or "list", parts *)
(* of candidates[0].content likewise, text of parts[0] is -1 when absent,  *)
(* 0 when "", else the text; finish says whether candidates[0] has a       *)
(* finishReason                                                            *)
Line(raw, payload) ==
    [raw |-> raw, payload |-> payload, envelope |-> "none",
     candidates |-> "absent", parts |-> "absent", text |-> -1, finish |-> FALSE]

Lines ==
    {Line("empty", "blank"), Line("other", "blank")}
    \cup {Line("data", p) : p \in {"blank", "bad_json", "array"}}
    \cup {l \in [raw : {"data"}, payload : {"object"},
                 envelope : {"none", "object", "null"},
                 candidates : {"absent", "empty", "bad", "list"},
                 parts : {"absent", "empty", "list"},
                 text : -1..MaxOut, finish : BOOLEAN] :
            /\ l.envelope = "null" => l.candidates = "absent"
            /\ l.candidates # "list" => (l.parts = "absent" /\ ~l.finish)
            /\ l.parts # "list" => l.text = -1}

RECURSIVE SeqsUpTo(_, _)
SeqsUpTo(S, n) ==
    IF n = 0 THEN {<<>>}
    ELSE SeqsUpTo(S, n - 1)
         \cup {Append(q, x) : q \in {q \in SeqsUpTo(S, n - 1) : Len(q) = n - 1}, x \in S}

(* the bodies a 2xx response may have *)
Bodies == SeqsUpTo(Lines, MaxLines)

NoneTok == [ok |-> FALSE, access |-> 0, project |-> 0]

(* an account record as authenticate_account builds it, reduced to the     *)
(* fields the manager and the engine read                                  *)
Account(id, acc, exp) ==
    [refreshToken |-> id, access |-> acc, expires |-> exp, projectId |-> id]

RECURSIVE AccountLists(_)
AccountLists(n) ==
    IF n = 0 THEN {<<>>}
    ELSE {Append(s, Account(n, n, e)) : s \in AccountLists(n - 1), e \in FileExpires}

FileContents ==
    {[kind |-> "absent", accounts |-> <<>>, activeIndex |-> 0],
     [kind |-> "corrupt", accounts |-> <<>>, activeIndex |-> 0]}
    \cup {[kind |-> "ok", accounts |-> a, activeIndex |-> i] :
            a \in UNION {AccountLists(n) : n \in 0..MaxAccounts},
            i \in FileIndexes}

VARIABLES
    accounts,       \* AccountManager.accounts
    active_index,   \* AccountManager.active_index
    file,           \* content of ACCOUNTS_FILE
    now,            \* time.time()
    lastOp,         \* the manager operation that ran last and its result
    pc,             \* position of stream_generate_content
    err,            \* the exception the invocation ended with
    max_retries,    \* client.py:76
    attempts,       \* client.py:77
    ep,             \* index of the endpoint loop, client.py:108
    last_error,     \* client.py:79
    token,          \* result of get_valid_token of this attempt
    out,            \* text increments yielded by this invocation
    sent,           \* text increments carried by the open response so far
    outStreams,     \* responses that contributed to out: 0, 1, 2 (= several)
    rotations,      \* rotate_account calls made by this invocation
    lastResp,       \* status and Retry-After of the last response received
    contacted,      \* endpoints requested in the current attempt, in order
    obs,            \* what the upstream answered during this invocation
    startIndex,     \* active_index when the invocation started
    rotLog,         \* the run of rotate_account calls made in a row
    other,          \* accounts and active_index of a second AccountManager
    held,           \* per request in flight: position of the account whose
                    \* token it sent, 0 when it holds none
    oauth,          \* position and callback state of authenticate_account
    body,           \* the lines of a 2xx response given to the line loop
    parsed,         \* lines read from body, text yielded, loop still open
    nStart          \* len(accounts) when max_retries was computed

mgr == <<accounts, active_index, file>>
cli == <<pc, err, max_retries, attempts, ep, last_error, token>>
hist == <<out, sent, outStreams, rotations, lastResp, contacted, obs, startIndex>>
conc == <<other, held>>
sse == <<body, parsed>>
budget == <<nStart>>
ext == <<conc, oauth, sse, budget>>
side == <<rotLog, conc, oauth, sse>>
vars == <<accounts, active_index, file, now, lastOp, pc, err, max_retries,
          attempts, ep, last_error, token, out, sent, outStreams,
          rotations, lastResp, contacted, obs, startIndex, rotLog, other, held,
          oauth, body, parsed, nStart>>

(* ---------------------------------------------------------------------- *)
(* AccountManager                                                          *)
(* ---------------------------------------------------------------------- *)

(* load(): a missing file leaves the constructor's values, an unreadable   *)
(* one empties accounts, a readable one sets both fields unchecked         *)
Load(f) ==
    IF f.kind = "ok"
    THEN [accounts |-> f.accounts, active_index |-> f.activeIndex]
    ELSE [accounts |-> <<>>, active_index |-> 0]

(* save(): the whole object is rewritten *)
Save(accs, ai) == [kind |-> "ok", accounts |-> accs, activeIndex |-> ai]

(* get_current_account(), the cursor part: a cursor >= len is set to 0 *)
ClampIndex(accs, ai) ==
    IF accs = <<>> THEN ai
    ELSE IF ai >= Len(accs) THEN 0 ELSE ai

(* Python list indexing accounts[i] as a 1-based position; 0 = IndexError *)
PyPos(i, n) ==
    IF i >= 0 /\ i < n THEN i + 1
    ELSE IF i < 0 /\ n + i >= 0 THEN n + i + 1
    ELSE 0

(* position of the record get_current_account() returns, 0 for None *)
CurrentPos(accs, ai) ==
    IF accs = <<>> THEN 0 ELSE PyPos(ClampIndex(accs, ai), Len(accs))

(* rotate_account(), the cursor part *)
RotateIndex(accs, ai) == (ai + 1) % Len(accs)

NoRefresh == [ok |-> FALSE, access_token |-> 0, expires_in |-> 0]

(* lastOp: the manager operation the last step performed ("none" when it   *)
(* performed none), whether it called refresh_access_token ("none", "ok",  *)
(* "fail"), the response of that call and the value returned               *)
Op(name, refresh, resp, ret) ==
    [name |-> name, refresh |-> refresh, resp |-> resp, ret |-> ret]

NoOp == Op("none", "none", NoRefresh, NoneTok)

(* the test without its 60 second buffer *)
NeedsRefresh_NoBuffer(t, expires) == t >= expires

(* the test of get_valid_token: time.time() >= expires - 60 *)
NeedsRefresh(t, expires) == t >= expires - ExpiryBuffer

(* refresh_access_token(): None, or the token response of the provider *)
RefreshResponses(rt) ==
    {NoRefresh}
    \cup {[ok |-> TRUE, access_token |-> 100 + rt, expires_in |-> e] : e \in ExpiresIn}

(* the in-place update of a successful refresh; t is the clock read at      *)
(* auth.py:344, after the refresh call returned                             *)
Refreshed(account, resp, t) ==
    [account EXCEPT !.access = resp.access_token,
                    !.expires = t + resp.expires_in]

(* get_valid_token() as a function of the state, the refresh response and   *)
(* the time the refresh call takes; refresh is "none", "ok" or "fail"       *)
GetValidTokenResult(accs, ai, f, t, resp, lat) ==
    LET pos == CurrentPos(accs, ai)
        ai1 == ClampIndex(accs, ai)
    IN  IF pos = 0
        THEN [accounts |-> accs, active_index |-> ai1, file |-> f, now |-> t,
              ret |-> NoneTok, refresh |-> "none", pos |-> 0]
        ELSE IF NeedsRefresh(t, accs[pos].expires)
        THEN IF resp.ok
             THEN LET a1 == Refreshed(accs[pos], resp, t + lat)
                      accs1 == [accs EXCEPT ![pos] = a1]
                  IN  [accounts |-> accs1, active_index |-> ai1,
                       file |-> Save(accs1, ai1), now |-> t + lat,
                       ret |-> [ok |-> TRUE, access |-> a1.access,
                                project |-> a1.projectId],
                       refresh |-> "ok", pos |-> pos]
             ELSE [accounts |-> accs, active_index |-> ai1, file |-> f,
                   now |-> t + lat, ret |-> NoneTok, refresh |-> "fail",
                   pos |-> pos]
        ELSE [accounts |-> accs, active_index |-> ai1, file |-> f, now |-> t,
              ret |-> [ok |-> TRUE, access |-> accs[pos].access,
                       project |-> accs[pos].projectId],
              refresh |-> "none", pos |-> pos]

(* rotLog: the cursor before the first of the rotate_account calls made in  *)
(* a row, and the positions these calls made current, in order             *)
NoRun == [start |-> 0, seen |-> <<>>]

(* oauth: where authenticate_account stands ("idle", "wait", "closed",     *)
(* "done"), whether callback_code is set, whether callback_state decodes   *)
(* to the verifier, the handle_request() calls that timed out, the status  *)
(* the handler answered last, what the token endpoint answered to the      *)
(* code exchange, the refresh_token of its grant, and what the function    *)
(* returned ("None", "account", or "raise" for an exception)               *)
NoLogin == [pc |-> "idle", code |-> FALSE, state |-> "none", timeouts |-> 0,
            served |-> 0, exchange |-> "none", refresh_token |-> -1,
            result |-> "none"]

(* the second AntigravityClient before it is constructed *)
NoOther == [accounts |-> <<>>, active_index |-> 0, loaded |-> FALSE]

NoParse == [pos |-> 0, out |-> <<>>, open |-> TRUE]

NoObs == [only5xx |-> TRUE, first429SecondOk |-> TRUE]
NoResp == [kind |-> "none", hdr |-> "absent"]

InitWith(f, b) ==
    /\ file = f
    /\ accounts = Load(file).accounts
    /\ active_index = Load(file).active_index
    /\ now = 0
    /\ lastOp = Op("load", "none", NoRefresh, NoneTok)
    /\ pc = "idle"
    /\ err = "none"
    /\ max_retries = 0
    /\ attempts = 0
    /\ ep = 1
    /\ last_error = "none"
    /\ token = NoneTok
    /\ out = <<>>
    /\ sent = <<>>
    /\ outStreams = 0
    /\ rotations = 0
    /\ lastResp = NoResp
    /\ contacted = <<>>
    /\ obs = NoObs
    /\ startIndex = 0
    /\ rotLog = NoRun
    /\ other = NoOther
    /\ held = [r \in Requests |-> 0]
    /\ oauth = NoLogin
    /\ body = b
    /\ parsed = NoParse
    /\ nStart = 0

(* the state after AntigravityClient() on any backing file *)
Init == \E f \in FileContents : InitWith(f, <<>>)

Idle == pc = "idle"

(* time passes between the calls of the pool's operations; the clock is    *)
(* read by get_valid_token only                                            *)
Tick ==
    /\ pc = "idle"
    /\ now < MaxTime
    /\ now' = now + 1
    /\ lastOp' = NoOp
    /\ UNCHANGED <<mgr, cli, hist>>
    /\ rotLog' = NoRun
    /\ UNCHANGED ext

(* AccountManager.get_current_account() called on its own *)
GetCurrentAccount ==
    /\ Idle
    /\ active_index' = ClampIndex(accounts, active_index)
    /\ lastOp' = Op("get_current_account", "none", NoRefresh,
                    [ok |-> CurrentPos(accounts, active_index) # 0,
                     access |-> CurrentPos(accounts, active_index),
                     project |-> 0])
    /\ UNCHANGED <<accounts, file, now, cli, hist>>
    /\ rotLog' = NoRun
    /\ UNCHANGED ext

(* the refresh token get_valid_token would send, 0 when there is no account *)
CurrentRefreshToken(accs, ai) ==
    IF CurrentPos(accs, ai) = 0 THEN 0 ELSE accs[CurrentPos(accs, ai)].refreshToken

(* the refresh responses and latencies that matter to a call: one dummy    *)
(* pair when the call does not refresh                                     *)
RefreshInputs(accs, ai, t) ==
    IF CurrentPos(accs, ai) # 0 /\ NeedsRefresh(t, accs[CurrentPos(accs, ai)].expires)
    THEN RefreshResponses(CurrentRefreshToken(accs, ai)) \X Latency
    ELSE {<<NoRefresh, 0>>}

(* AccountManager.get_valid_token() called on its own *)
GetValidToken ==
    /\ Idle
    /\ \E inp \in RefreshInputs(accounts, active_index, now) :
         LET r == GetValidTokenResult(accounts, active_index, file, now, inp[1], inp[2])
         IN  /\ r.now <= MaxTime
             /\ accounts' = r.accounts
             /\ active_index' = r.active_index
             /\ file' = r.file
             /\ now' = r.now
             /\ lastOp' = Op("get_valid_token", r.refresh, inp[1], r.ret)
    /\ UNCHANGED <<cli, hist>>
    /\ rotLog' = NoRun
    /\ UNCHANGED ext

(* rotLog after a rotate_account call that moved the cursor from ai to ai1: *)
(* a run that covered len(accounts) calls is complete, the call starts the *)
(* next one                                                                *)
LogRotation(log, accs, ai, ai1) ==
    IF log.seen = <<>> \/ Len(log.seen) >= Len(accs)
    THEN [start |-> ai, seen |-> <<CurrentPos(accs, ai1)>>]
    ELSE [log EXCEPT !.seen = Append(@, CurrentPos(accs, ai1))]

(* AccountManager.rotate_account() called on its own *)
RotateAccount ==
    /\ Idle
    /\ IF accounts = <<>>
       THEN /\ rotLog' = NoRun
            /\ UNCHANGED <<active_index, file>>
       ELSE /\ active_index' = RotateIndex(accounts, active_index)
            /\ file' = Save(accounts, active_index')
            /\ rotLog' = LogRotation(rotLog, accounts, active_index, active_index')
    /\ lastOp' = Op("rotate_account", "none", NoRefresh, NoneTok)
    /\ UNCHANGED <<accounts, now, cli, hist>>
    /\ UNCHANGED ext

(* AccountManager.add_account(account) with a record of a finished login *)
AddAccount ==
    /\ Idle
    /\ Len(accounts) < MaxAccounts
    /\ \E e \in ExpiresIn :
         LET id == Len(accounts) + 1
         IN  accounts' = Append(accounts, Account(id, id, now + e))
    /\ file' = Save(accounts', active_index)
    /\ lastOp' = Op("add_account", "none", NoRefresh, NoneTok)
    /\ UNCHANGED <<active_index, now, cli, hist>>
    /\ rotLog' = NoRun
    /\ UNCHANGED ext

(* ---------------------------------------------------------------------- *)
(* AntigravityClient.stream_generate_content                               *)
(* ---------------------------------------------------------------------- *)

(* the budget without the factor 3 *)
MaxRetries_NoFactor(n) == n

(* client.py:76 *)
MaxRetries(n) == RetryFactor * n

(* int(response.headers.get("Retry-After", 1)): the value, or -1 when int() *)
(* raises ValueError                                                        *)
ParseRetryAfter(hdr) ==
    IF hdr = "absent" THEN DefaultRetryAfter
    ELSE IF hdr = "int" THEN 30
    ELSE -1

(* what the body of the endpoint loop does with a response (client.py       *)
(* 111-162): "break" after mark_rate_limited, "continue" with the next      *)
(* endpoint, "stream" to read the lines, "raise" to the caller.  An         *)
(* exception raised inside the try block, raise_for_status() and int()      *)
(* included, is caught at line 160 and continues the loop.                  *)
StatusAction(kind, hdr) ==
    IF kind = "connect_error" THEN "continue"
    ELSE IF kind = "429"
         THEN IF ParseRetryAfter(hdr) >= 0 THEN "break" ELSE "continue"
    ELSE IF kind = "5xx" THEN "continue"
    ELSE IF kind = "4xx" THEN "continue"
    ELSE "stream"

(* last_error after a response that did not open a stream *)
ErrorOf(kind, hdr) ==
    IF kind = "429" /\ ParseRetryAfter(hdr) >= 0 THEN "429"
    ELSE IF kind = "5xx" THEN "5xx"
    ELSE "exception"

(* end of one pass of the for loop that did not break or return: the next   *)
(* endpoint, or the end of the attempt                                      *)
AfterContinue(e) ==
    IF e < Len(CODE_ASSIST_ENDPOINT_FALLBACKS)
    THEN [pc |-> "endpoint", ep |-> e + 1]
    ELSE [pc |-> "loop", ep |-> 1]

(* a budget computed anew from the pool at every test of the loop *)
Budget_Live(captured, live) == MaxRetries(live)

(* client.py:76 and 81: the loop tests attempts against the local          *)
(* max_retries, computed once before the loop, not against the pool        *)
Budget(captured, live) == captured

(* a missing token that only ends the attempt *)
OnNoToken_NextAttempt == [pc |-> "loop", err |-> "none"]

(* what get_valid_token returning None does to the invocation: the tuple    *)
(* unpacking at client.py:83 raises before the test at line 85              *)
OnNoToken == [pc |-> "raised", err |-> "no_token"]

(* a finished response that falls out of the endpoint loop instead of      *)
(* returning                                                                *)
AfterStream_NextAttempt == "loop"

(* client.py:158: the lines of a 2xx response ended without an exception *)
AfterStream == "returned"

(* the line is a data: event whose object has a first candidate with a    *)
(* first part with a non-empty text                                        *)
CarriesText(line) ==
    /\ line.raw = "data"
    /\ line.payload = "object"
    /\ line.envelope # "null"
    /\ line.candidates = "list"
    /\ line.parts = "list"
    /\ line.text > 0

(* client.py:126-157, the text a line makes the generator yield, <<>> for  *)
(* none, test by test; an exception raised between json.loads and the      *)
(* yield is caught at line 156                                             *)
LineYield(line) ==
    IF line.raw = "empty" THEN <<>>                            \* 126-127
    ELSE IF line.raw # "data" THEN <<>>                        \* 128
    ELSE IF line.payload = "blank" THEN <<>>                   \* 129-131
    ELSE IF line.payload = "bad_json" THEN <<>>                \* 133, 156
    ELSE IF line.payload = "array" THEN <<>>                   \* 134, 156
    ELSE IF line.envelope = "null" THEN <<>>                   \* 135, 156
    ELSE IF line.candidates \in {"absent", "empty"} THEN <<>>  \* 135-136
    ELSE IF line.candidates = "bad" THEN <<>>                  \* 137, 156
    ELSE IF line.parts \in {"absent", "empty"} THEN <<>>       \* 137-138
    ELSE IF line.text <= 0 THEN <<>>                           \* 139-140
    ELSE <<line.text>>                                         \* 142-150

(* a line loop that returns when a candidate carries a finishReason *)
ParseLine_StopAtFinish(line) ==
    [yield |-> LineYield(line),
     stop |-> line.candidates = "list" /\ line.finish]

(* one pass of the line loop: what is yielded and whether the loop is left; *)
(* the finishReason is read and nothing is done with it (client.py:152-154)*)
ParseLine(line) == [yield |-> LineYield(line), stop |-> FALSE]

Observe(o, owner, kind) ==
    [only5xx |-> o.only5xx /\ kind = "5xx",
     first429SecondOk |-> /\ o.first429SecondOk
                          /\ owner = 1 => kind = "429"
                          /\ owner = 2 => kind = "2xx"
                          /\ owner \in {1, 2}]

(* client.py:60-79 with a non-empty pool *)
Start ==
    /\ Idle
    /\ accounts # <<>>
    /\ pc' = "loop"
    /\ err' = "none"
    /\ max_retries' = MaxRetries(Len(accounts))
    /\ attempts' = 0
    /\ ep' = 1
    /\ last_error' = "none"
    /\ token' = NoneTok
    /\ out' = <<>>
    /\ sent' = <<>>
    /\ outStreams' = 0
    /\ rotations' = 0
    /\ lastResp' = NoResp
    /\ contacted' = <<>>
    /\ obs' = NoObs
    /\ startIndex' = active_index
    /\ lastOp' = NoOp
    /\ UNCHANGED <<mgr, now>>
    /\ nStart' = Len(accounts)
    /\ UNCHANGED side

(* client.py:60-61 with an empty pool: ensure_auth is entered *)
StartAuth ==
    /\ Idle
    /\ accounts = <<>>
    /\ pc' = "auth"
    /\ err' = "none"
    /\ max_retries' = 0
    /\ attempts' = 0
    /\ ep' = 1
    /\ last_error' = "none"
    /\ token' = NoneTok
    /\ out' = <<>>
    /\ sent' = <<>>
    /\ outStreams' = 0
    /\ rotations' = 0
    /\ lastResp' = NoResp
    /\ contacted' = <<>>
    /\ obs' = NoObs
    /\ startIndex' = active_index
    /\ lastOp' = NoOp
    /\ UNCHANGED <<mgr, now>>
    /\ UNCHANGED <<side, budget>>

(* one pass of the while loop of ensure_auth (client.py:28-48): a login     *)
(* that yields an account or not, then the answer to the prompt; a failing  *)
(* input() counts as "n"                                                    *)
EnsureAuth ==
    /\ pc = "auth"
    /\ \E login \in BOOLEAN, again \in BOOLEAN, e \in ExpiresIn :
         LET id == Len(accounts) + 1
             accs1 == IF login THEN Append(accounts, Account(id, id, now + e))
                      ELSE accounts
         IN  /\ login => Len(accounts) < MaxAccounts
             /\ ~login => e = 60
             /\ accounts' = accs1
             /\ file' = IF login THEN Save(accs1, active_index) ELSE file
             /\ lastOp' = IF login THEN Op("add_account", "none", NoRefresh, NoneTok) ELSE NoOp
             /\ IF again
                THEN /\ pc' = "auth"
                     /\ UNCHANGED <<err, max_retries, nStart>>
                ELSE IF Len(accs1) >= 1
                THEN /\ pc' = "loop"
                     /\ max_retries' = MaxRetries(Len(accs1))
                     /\ nStart' = Len(accs1)
                     /\ UNCHANGED err
                ELSE /\ pc' = "raised"
                     /\ err' = "auth_failed"
                     /\ UNCHANGED <<max_retries, nStart>>
    /\ UNCHANGED <<active_index, now, attempts, ep, last_error, token, hist>>
    /\ UNCHANGED side

(* the refresh inputs an invocation is run with: the call takes no clock    *)
(* tick and a granted token outlives the 60 second buffer                   *)
AttemptRefreshInputs(accs, ai, t) ==
    {inp \in RefreshInputs(accs, ai, t) :
        inp[2] = 0 /\ (inp[1].ok => inp[1].expires_in > ExpiryBuffer)}

(* client.py:81-86: the head of an attempt *)
BeginAttempt ==
    /\ pc = "loop"
    /\ attempts < Budget(max_retries, Len(accounts))
    /\ attempts' = attempts + 1
    /\ \E inp \in AttemptRefreshInputs(accounts, active_index, now) :
         LET r == GetValidTokenResult(accounts, active_index, file, now, inp[1], inp[2])
         IN  /\ accounts' = r.accounts
             /\ active_index' = r.active_index
             /\ file' = r.file
             /\ now' = r.now
             /\ lastOp' = Op("get_valid_token", r.refresh, inp[1], r.ret)
             /\ token' = r.ret
             /\ IF r.ret.ok
                THEN /\ pc' = "endpoint"
                     /\ UNCHANGED err
                ELSE /\ pc' = OnNoToken.pc
                     /\ err' = OnNoToken.err
    /\ ep' = 1
    /\ contacted' = <<>>
    /\ UNCHANGED <<max_retries, last_error, out, sent, outStreams,
                   rotations, lastResp, obs, startIndex>>
    /\ UNCHANGED <<side, budget>>

(* client.py:81 and 168: the budget is used up *)
Exhausted ==
    /\ pc = "loop"
    /\ attempts >= Budget(max_retries, Len(accounts))
    /\ pc' = "raised"
    /\ err' = "exhausted"
    /\ lastOp' = NoOp
    /\ UNCHANGED <<mgr, now, max_retries, attempts, ep, last_error,
                   token, hist>>
    /\ UNCHANGED <<side, budget>>

(* client.py:108-123 and 160-162: one request to the endpoint at ep and     *)
(* the handling of its status                                               *)
Request ==
    /\ pc = "endpoint"
    /\ \E kind \in StatusKinds, hdr \in RetryAfterHeaders :
         LET act == StatusAction(kind, hdr)
             nxt == AfterContinue(ep)
         IN  /\ kind # "429" => hdr = "absent"
             /\ lastResp' = [kind |-> kind, hdr |-> hdr]
             /\ contacted' = Append(contacted, CODE_ASSIST_ENDPOINT_FALLBACKS[ep])
             /\ obs' = Observe(obs, token.project, kind)
             /\ IF act = "break"
                THEN /\ active_index' = RotateIndex(accounts, active_index)
                     /\ file' = Save(accounts, active_index')
                     /\ lastOp' = Op("rotate_account", "none", NoRefresh, NoneTok)
                     /\ rotations' = rotations + 1
                     /\ last_error' = ErrorOf(kind, hdr)
                     /\ pc' = "loop"
                     /\ ep' = 1
                     /\ UNCHANGED <<err, sent>>
                ELSE IF act = "continue"
                THEN /\ last_error' = ErrorOf(kind, hdr)
                     /\ pc' = nxt.pc
                     /\ ep' = nxt.ep
                     /\ lastOp' = NoOp
                     /\ UNCHANGED <<active_index, file, rotations, err, sent>>
                ELSE IF act = "raise"
                THEN /\ pc' = "raised"
                     /\ err' = "http_status"
                     /\ lastOp' = NoOp
                     /\ UNCHANGED <<active_index, file, rotations,
                                    last_error, ep, sent>>
                ELSE /\ pc' = "stream"
                     /\ sent' = <<>>
                     /\ lastOp' = NoOp
                     /\ UNCHANGED <<active_index, file, rotations,
                                    last_error, ep, err>>
    /\ UNCHANGED <<accounts, now, max_retries, attempts, token, out,
                   outStreams, startIndex>>
    /\ UNCHANGED <<side, budget>>

(* what the lines do to the loop: whether the line carries text, the text  *)
(* it carries (0 for none) and the outcome of its pass; lines that do the  *)
(* same are one element                                                    *)
LineEffects ==
    {[carries |-> CarriesText(line),
      text |-> IF CarriesText(line) THEN line.text ELSE 0,
      pass |-> ParseLine(line)] : line \in Lines}

(* client.py:125-157: one line of the open response; the k-th event that    *)
(* carries text carries the text k                                          *)
StreamLine ==
    /\ pc = "stream"
    /\ \E line \in LineEffects :
         LET k == Len(sent) + 1
             r == line.pass
         IN  /\ line.carries => (line.text = k /\ Len(out) < MaxOut)
             /\ sent' = IF line.carries THEN Append(sent, k) ELSE sent
             /\ out' = out \o r.yield
             /\ outStreams' = IF r.yield # <<>> /\ Len(sent) = 0 /\ outStreams < 2
                              THEN outStreams + 1 ELSE outStreams
             /\ pc' = IF r.stop THEN AfterStream ELSE "stream"
    /\ lastOp' = NoOp
    /\ UNCHANGED <<mgr, now, err, max_retries, attempts, ep, last_error, token,
                   rotations, lastResp, contacted, obs, startIndex>>
    /\ UNCHANGED <<side, budget>>

(* client.py:158: the response ended, the generator returns *)
StreamClose ==
    /\ pc = "stream"
    /\ pc' = AfterStream
    /\ lastOp' = NoOp
    /\ UNCHANGED <<mgr, now, err, max_retries, attempts, ep,
                   last_error, token, hist>>
    /\ UNCHANGED <<side, budget>>

(* client.py:160-162: aiter_lines() raised a transport error *)
StreamError ==
    /\ pc = "stream"
    /\ last_error' = "exception"
    /\ pc' = AfterContinue(ep).pc
    /\ ep' = AfterContinue(ep).ep
    /\ lastResp' = [kind |-> "stream_error", hdr |-> "absent"]
    /\ obs' = [obs EXCEPT !.first429SecondOk = FALSE, !.only5xx = FALSE]
    /\ lastOp' = NoOp
    /\ UNCHANGED <<mgr, now, err, max_retries, attempts, token, out,
                   sent, outStreams, rotations, contacted, startIndex>>
    /\ UNCHANGED <<side, budget>>

(* ---------------------------------------------------------------------- *)
(* Several callers of one backing file                                     *)
(* ---------------------------------------------------------------------- *)

(* what an operation of this section leaves alone *)
unshared == <<cli, hist, rotLog, oauth, sse, budget>>

(* client.py:83 in one of the invocations that run on the same client:     *)
(* get_valid_token has no await, so it runs whole on the event loop         *)
SharedToken(r) ==
    /\ Idle
    /\ held[r] = 0
    /\ \E inp \in AttemptRefreshInputs(accounts, active_index, now) :
         LET res == GetValidTokenResult(accounts, active_index, file, now, inp[1], inp[2])
         IN  /\ res.now <= MaxTime
             /\ accounts' = res.accounts
             /\ active_index' = res.active_index
             /\ file' = res.file
             /\ now' = res.now
             /\ lastOp' = Op("get_valid_token", res.refresh, inp[1], res.ret)
             /\ held' = [held EXCEPT ![r] = IF res.ret.ok THEN res.pos ELSE 0]
    /\ UNCHANGED <<other, unshared>>

(* client.py:113-116 in that invocation: its request was answered 429 *)
SharedRateLimited(r) ==
    /\ Idle
    /\ held[r] # 0
    /\ active_index' = RotateIndex(accounts, active_index)
    /\ file' = Save(accounts, active_index')
    /\ lastOp' = Op("rotate_account", "none", NoRefresh, NoneTok)
    /\ held' = [held EXCEPT ![r] = 0]
    /\ UNCHANGED <<accounts, now, other, unshared>>

(* that invocation ended in another way *)
SharedDone(r) ==
    /\ Idle
    /\ held[r] # 0
    /\ held' = [held EXCEPT ![r] = 0]
    /\ lastOp' = NoOp
    /\ UNCHANGED <<mgr, now, other, unshared>>

(* AntigravityClient() a second time (client.py:21-22): its AccountManager  *)
(* loads the file as it is now                                              *)
OtherLoad ==
    /\ Idle
    /\ ~other.loaded
    /\ other' = [accounts |-> Load(file).accounts,
                 active_index |-> Load(file).active_index, loaded |-> TRUE]
    /\ lastOp' = Op("other.load", "none", NoRefresh, NoneTok)
    /\ UNCHANGED <<mgr, now, held, unshared>>

(* get_valid_token of the AccountManager of the second client *)
OtherGetValidToken ==
    /\ Idle
    /\ other.loaded
    /\ \E inp \in AttemptRefreshInputs(other.accounts, other.active_index, now) :
         LET res == GetValidTokenResult(other.accounts, other.active_index,
                                        file, now, inp[1], inp[2])
         IN  /\ res.now <= MaxTime
             /\ other' = [accounts |-> res.accounts,
                          active_index |-> res.active_index, loaded |-> TRUE]
             /\ file' = res.file
             /\ now' = res.now
             /\ lastOp' = Op("other.get_valid_token", res.refresh, inp[1], res.ret)
    /\ UNCHANGED <<accounts, active_index, held, unshared>>

(* rotate_account of the second AccountManager *)
OtherRotateAccount ==
    /\ Idle
    /\ other.loaded
    /\ other.accounts # <<>>
    /\ other' = [other EXCEPT !.active_index = RotateIndex(other.accounts, @)]
    /\ file' = Save(other'.accounts, other'.active_index)
    /\ lastOp' = Op("other.rotate_account", "none", NoRefresh, NoneTok)
    /\ UNCHANGED <<accounts, active_index, now, held, unshared>>

(* add_account of the second AccountManager; its logins are numbered from   *)
(* 11 to tell them from those of the first                                  *)
OtherAddAccount ==
    /\ Idle
    /\ other.loaded
    /\ Len(other.accounts) < MaxAccounts
    /\ \E e \in ExpiresIn :
         LET id == 10 + Len(other.accounts) + 1
         IN  other' = [other EXCEPT !.accounts = Append(@, Account(id, id, now + e))]
    /\ file' = Save(other'.accounts, other'.active_index)
    /\ lastOp' = Op("other.add_account", "none", NoRefresh, NoneTok)
    /\ UNCHANGED <<accounts, active_index, now, held, unshared>>

(* ---------------------------------------------------------------------- *)
(* authenticate_account                                                    *)
(* ---------------------------------------------------------------------- *)

(* what one handle_request() call meets: no connection within              *)
(* server.timeout, a request for another path, a request for               *)
(* /oauth-callback without code or state, or one with both                 *)
CallbackEvents == {"timeout", "other_path", "missing_param", "callback"}

(* do_GET (auth.py:61-88), or handle_timeout() of the base class: the      *)
(* status answered and the class attributes after the call                 *)
HandleRequest(l, ev, st) ==
    IF ev = "timeout" THEN [l EXCEPT !.timeouts = @ + 1, !.served = 0]
    ELSE IF ev = "other_path" THEN [l EXCEPT !.served = 404]
    ELSE IF ev = "missing_param" THEN [l EXCEPT !.served = 400]
    ELSE [l EXCEPT !.code = TRUE, !.state = st, !.served = 200]

(* auth.py:131: the loop is left when callback_code is no longer None *)
WaitOver(l) == l.code

(* auth.py:94-129: the listener is bound and the class attributes reset *)
LoginStart ==
    /\ Idle
    /\ oauth.pc = "idle"
    /\ oauth' = [NoLogin EXCEPT !.pc = "wait"]
    /\ lastOp' = NoOp
    /\ UNCHANGED <<mgr, now, cli, hist, rotLog, conc, sse, budget>>

(* the state parameter of a callback: the state that was sent, the state   *)
(* of another verifier, or a string decode_state cannot decode              *)
CallbackStates == {"match", "mismatch", "garbage"}

(* auth.py:131-132: one handle_request() call and the loop test after it *)
LoginHandleRequest ==
    /\ oauth.pc = "wait"
    /\ \E ev \in CallbackEvents, st \in CallbackStates :
         LET l1 == HandleRequest(oauth, ev, st)
         IN  /\ ev # "callback" => st = "match"
             /\ ev = "timeout" => oauth.timeouts < MaxTimeouts
             /\ oauth' = [l1 EXCEPT !.pc = IF WaitOver(l1) THEN "closed" ELSE "wait"]
    /\ lastOp' = NoOp
    /\ UNCHANGED <<mgr, now, cli, hist, rotLog, conc, sse, budget>>

(* what the token endpoint answers to the code exchange: an error status   *)
(* or a failed call, a JSON object without access_token, or a grant        *)
Exchanges == {"fail", "no_access_token", "grant"}

(* refresh_token of the grant of the n-th login: -1 when the key is        *)
(* missing, 0 when it is "", else the token                                *)
GrantTokens(n) == {-1, 0, n}

(* a test for the key alone *)
HasRefreshToken_KeyPresent(rt) == rt # -1

(* auth.py:190-191: token_data.get("refresh_token") is truthy *)
HasRefreshToken(rt) == rt # -1 /\ rt # 0

(* auth.py:136-165: the token endpoint is called *)
ExchangeReached(l) == l.code /\ l.state = "match"

(* auth.py:136-209, what authenticate_account returns, test by test *)
LoginResult(l, exchange, rt) ==
    IF ~l.code \/ l.state = "none" THEN "None"            \* 136-138
    ELSE IF l.state = "garbage" THEN "raise"              \* 144, 45-52
    ELSE IF l.state # "match" THEN "None"                 \* 145-147
    ELSE IF exchange = "fail" THEN "None"                 \* 159-165
    ELSE IF exchange = "no_access_token" THEN "raise"     \* 168
    ELSE IF ~HasRefreshToken(rt) THEN "None"              \* 190-193
    ELSE "account"                                        \* 200-209

(* auth.py:134-209: the checks after the wait, the token exchange and the  *)
(* result; an answer that is not read is not chosen                        *)
LoginFinish ==
    /\ oauth.pc = "closed"
    /\ \E exchange \in Exchanges, rt \in GrantTokens(Len(accounts) + 1) :
         /\ ~ExchangeReached(oauth) => exchange = "fail"
         /\ exchange # "grant" => rt = -1
         /\ oauth' = [oauth EXCEPT
                        !.pc = "done",
                        !.exchange = IF ExchangeReached(oauth) THEN exchange ELSE "none",
                        !.refresh_token = rt,
                        !.result = LoginResult(oauth, exchange, rt)]
    /\ lastOp' = NoOp
    /\ UNCHANGED <<mgr, now, cli, hist, rotLog, conc, sse, budget>>

(* ---------------------------------------------------------------------- *)
(* ensure_auth, login by login                                             *)
(* ---------------------------------------------------------------------- *)

(* client.py:29: the loop of ensure_auth calls authenticate_account *)
AuthLoginStart ==
    /\ pc = "auth"
    /\ oauth.pc = "idle"
    /\ oauth' = [NoLogin EXCEPT !.pc = "wait"]
    /\ lastOp' = NoOp
    /\ UNCHANGED <<mgr, now, cli, hist, rotLog, conc, sse, budget>>

(* the record authenticate_account returns for login number id (auth.py    *)
(* 200-209)                                                                *)
LoginRecord(id, rt, exp) == [Account(id, id, exp) EXCEPT !.refreshToken = rt]

(* client.py:29-48: authenticate_account returned or raised; an account is *)
(* added, then the prompt is answered; a failing input() counts as "n"     *)
AuthAdopt ==
    /\ pc = "auth"
    /\ oauth.pc = "done"
    /\ \E again \in BOOLEAN, e \in ExpiresIn :
         LET got == oauth.result = "account"
             id == Len(accounts) + 1
             accs1 == IF got
                      THEN Append(accounts, LoginRecord(id, oauth.refresh_token, now + e))
                      ELSE accounts
         IN  /\ got => Len(accounts) < MaxAccounts
             /\ ~got => e = 60
             /\ oauth.result = "raise" => ~again
             /\ accounts' = accs1
             /\ file' = IF got THEN Save(accs1, active_index) ELSE file
             /\ lastOp' = IF got THEN Op("add_account", "none", NoRefresh, NoneTok) ELSE NoOp
             /\ oauth' = [oauth EXCEPT !.pc = "idle"]
             /\ IF oauth.result = "raise"
                THEN /\ pc' = "raised"
                     /\ err' = "login_error"
                     /\ UNCHANGED <<max_retries, nStart>>
                ELSE IF again
                THEN /\ pc' = "auth"
                     /\ UNCHANGED <<err, max_retries, nStart>>
                ELSE IF Len(accs1) >= 1
                THEN /\ pc' = "loop"
                     /\ max_retries' = MaxRetries(Len(accs1))
                     /\ nStart' = Len(accs1)
                     /\ UNCHANGED err
                ELSE /\ pc' = "raised"
                     /\ err' = "auth_failed"
                     /\ UNCHANGED <<max_retries, nStart>>
    /\ UNCHANGED <<active_index, now, attempts, ep, last_error, token, hist>>
    /\ UNCHANGED <<rotLog, conc, sse>>

(* ---------------------------------------------------------------------- *)
(* The line loop over one response body                                    *)
(* ---------------------------------------------------------------------- *)

(* a 2xx response with any body is about to be read *)
InitParse ==
    \E b \in Bodies :
        InitWith([kind |-> "absent", accounts |-> <<>>, activeIndex |-> 0], b)

(* client.py:125-157: the next line of the body goes through the loop *)
ParseStep ==
    /\ parsed.open
    /\ parsed.pos < Len(body)
    /\ LET r == ParseLine(body[parsed.pos + 1])
       IN  parsed' = [pos |-> parsed.pos + 1,
                      out |-> parsed.out \o r.yield,
                      open |-> ~r.stop]
    /\ lastOp' = NoOp
    /\ UNCHANGED <<mgr, now, cli, hist, rotLog, conc, oauth, body, budget>>

(* client.py:158: the lines ended, the generator returns *)
ParseEnd ==
    /\ parsed.open
    /\ parsed.pos = Len(body)
    /\ parsed' = [parsed EXCEPT !.open = FALSE]
    /\ lastOp' = NoOp
    /\ UNCHANGED <<mgr, now, cli, hist, rotLog, conc, oauth, body, budget>>

(* ---------------------------------------------------------------------- *)
(* An invocation while accounts are added to its pool                      *)
(* ---------------------------------------------------------------------- *)

(* the files of a pool that was written by save() and whose tokens are     *)
(* not due: the budget does not depend on cursor or expiry                 *)
BudgetFiles ==
    {f \in FileContents :
        /\ f.kind # "corrupt"
        /\ f.activeIndex = 0
        /\ \A k \in 1..Len(f.accounts) : f.accounts[k].expires = 62}

InitBudget == \E f \in BudgetFiles : InitWith(f, <<>>)

(* add_account on the invocation's AccountManager while the invocation is  *)
(* suspended: ensure_auth of an earlier invocation still runs in its       *)
(* worker thread (client.py:29-32, 60-61) and a further login finished     *)
AddDuringRun ==
    /\ pc \in {"loop", "endpoint", "stream"}
    /\ Len(accounts) < MaxAccounts
    /\ \E e \in ExpiresIn :
         LET id == Len(accounts) + 1
         IN  accounts' = Append(accounts, Account(id, id, now + e))
    /\ file' = Save(accounts', active_index)
    /\ lastOp' = Op("add_account", "none", NoRefresh, NoneTok)
    /\ UNCHANGED <<active_index, now, cli, hist, side, budget>>

(* ---------------------------------------------------------------------- *)
(* An invocation against an upstream that answers 429 to every request     *)
(* ---------------------------------------------------------------------- *)

(* the files of a pool of one account or more, none of whose tokens is due *)
FreshFiles ==
    {f \in FileContents :
        /\ f.kind = "ok"
        /\ f.accounts # <<>>
        /\ \A k \in 1..Len(f.accounts) : ~NeedsRefresh(0, f.accounts[k].expires)}

InitRateLimited == \E f \in FreshFiles : InitWith(f, <<>>)

(* client.py:112-113: the request at ep is answered 429, with any          *)
(* Retry-After header                                                      *)
Request429 == Request /\ lastResp'.kind = "429"

(* the operations of the pool, called one after the other *)
NextPool ==
    \/ Tick
    \/ GetCurrentAccount
    \/ GetValidToken
    \/ RotateAccount
    \/ AddAccount

SpecPool == Init /\ [][NextPool]_vars

(* two invocations on one client and a second client, all over one file;   *)
(* every step is one call that runs without yielding the event loop        *)
NextShared ==
    \/ \E r \in Requests : SharedToken(r)
    \/ \E r \in Requests : SharedRateLimited(r)
    \/ \E r \in Requests : SharedDone(r)
    \/ AddAccount
    \/ OtherLoad
    \/ OtherGetValidToken
    \/ OtherRotateAccount
    \/ OtherAddAccount

SpecShared == Init /\ [][NextShared]_vars

(* one call of authenticate_account *)
NextLogin ==
    \/ LoginStart
    \/ LoginHandleRequest
    \/ LoginFinish

SpecLogin == Init /\ [][NextLogin]_vars

(* ensure_auth of an invocation that found the pool empty, every login     *)
(* followed from the callback wait to the prompt                           *)
NextAuth ==
    \/ StartAuth
    \/ AuthLoginStart
    \/ LoginHandleRequest
    \/ LoginFinish
    \/ AuthAdopt

SpecAuth == Init /\ [][NextAuth]_vars

(* the line loop run over one body *)
NextParse ==
    \/ ParseStep
    \/ ParseEnd

SpecParse == InitParse /\ [][NextParse]_vars

(* one invocation of stream_generate_content on a freshly loaded pool; the  *)
(* clock stands still while it runs                                         *)
Next ==
    \/ Start
    \/ StartAuth
    \/ EnsureAuth
    \/ BeginAttempt
    \/ Exhausted
    \/ Request
    \/ StreamLine
    \/ StreamClose
    \/ StreamError

Spec == Init /\ [][Next]_vars

(* one invocation on a pool with fresh tokens, every request answered 429 *)
NextRateLimited ==
    \/ Start
    \/ BeginAttempt
    \/ Exhausted
    \/ Request429

SpecRateLimited == InitRateLimited /\ [][NextRateLimited]_vars

(* one invocation while logins finish; the coroutine is resumed whenever   *)
(* it can run, every request is answered and every open response ends or   *)
(* breaks; the lines read from an open response are left out, they change  *)
(* out, sent and outStreams only                                           *)
NextBudget ==
    \/ Start
    \/ StartAuth
    \/ EnsureAuth
    \/ BeginAttempt
    \/ Exhausted
    \/ Request
    \/ StreamClose
    \/ StreamError
    \/ AddDuringRun

Resume == BeginAttempt \/ Exhausted \/ Request \/ StreamClose \/ StreamError

SpecBudget == InitBudget /\ [][NextBudget]_vars /\ WF_vars(Resume)


(* ---------------------------------------------------------------------- *)
(* Properties                                                              *)
(* ---------------------------------------------------------------------- *)

(* position of the current account in the present state, 0 for none *)
Pos == CurrentPos(accounts, active_index)

Final == pc \in {"returned", "raised"}

(* C1: a response with a status that is not 2xx, not 429 and below 500     *)
(* makes the invocation raise at once: after it no endpoint is contacted   *)
(* and no attempt is started.                                              *)
C1_ClientErrorRaisesAtOnce ==
    lastResp.kind = "4xx" => (pc = "raised" /\ err = "http_status")

(* C2: once a 2xx response is open the attempt is committed: after a       *)
(* transport error while reading it no request is sent and no attempt is   *)
(* started, and all text yielded by an invocation comes from one response. *)
C2_OpenStreamIsCommitted ==
    /\ [][lastResp.kind = "stream_error"
            => (contacted' = contacted /\ attempts' = attempts)]_vars
    /\ [](outStreams <= 1)

(* C3: every 429, whatever its Retry-After header, rotates the pool once   *)
(* and leaves the endpoint loop, so that the next attempt uses the rotated *)
(* account.                                                                *)
C3_Every429RotatesOnce ==
    [][(pc = "endpoint" /\ lastResp'.kind = "429")
         => /\ rotations' = rotations + 1
            /\ active_index' = (active_index + 1) % Len(accounts)
            /\ file'.activeIndex = active_index'
            /\ pc' = "loop"]_vars

(* C4: with N >= 1 accounts, obtainable tokens and only statuses >= 500,   *)
(* the invocation never returns, every attempt contacts the three          *)
(* endpoints in order, and it raises exhaustion after exactly 3 * N        *)
(* attempts.                                                               *)
C4_ServerErrorsUseWholeBudget ==
    (obs.only5xx /\ Len(accounts) >= 1 /\ err # "no_token")
      => /\ pc # "returned"
         /\ attempts <= 3 * Len(accounts)
         /\ pc = "raised" => (err = "exhausted" /\ attempts = 3 * Len(accounts))
         /\ (pc \in {"loop", "raised"} /\ attempts > 0)
              => contacted = <<"daily", "autopush", "prod">>

C4_Witness ==
    /\ pc = "raised"
    /\ err = "exhausted"
    /\ obs.only5xx
    /\ Len(accounts) = 2
    /\ attempts = 6
    /\ contacted = <<"daily", "autopush", "prod">>

(* C5: endpoints are contacted in the order of the fallback list; a 2xx    *)
(* response whose lines end makes the invocation return, after which       *)
(* nothing is requested or yielded; when the first endpoint answered 5xx   *)
(* and the second a stream of two text events, exactly these two           *)
(* increments were yielded, in order, the third endpoint untouched.        *)
C5_FirstCompletedStreamEnds ==
    /\ [](/\ \E n \in 0..3 : contacted = SubSeq(<<"daily", "autopush", "prod">>, 1, n)
          /\ lastResp.kind = "2xx" => pc \in {"stream", "returned"}
          /\ pc = "returned" => lastResp.kind = "2xx"
          /\ (/\ pc = "returned"
              /\ attempts = 1
              /\ contacted = <<"daily", "autopush">>
              /\ last_error = "5xx"
              /\ Len(sent) = 2) => out = <<1, 2>>)
    /\ [][pc = "returned"
            => (pc' = "returned" /\ contacted' = contacted
                /\ attempts' = attempts /\ out' = out)]_vars

C5_Witness ==
    /\ pc = "returned"
    /\ attempts = 1
    /\ contacted = <<"daily", "autopush">>
    /\ last_error = "5xx"
    /\ sent = <<1, 2>>
    /\ out = <<1, 2>>

(* C6: with two accounts, the cursor on the first, 429 for every request   *)
(* of the first account and a complete stream for every request of the     *)
(* second, the invocation returns on its second attempt after exactly one  *)
(* rotation, the cursor on the second account.                             *)
C6_RotatesOnceAndSucceeds ==
    (/\ Final
     /\ err \notin {"no_token", "auth_failed"}
     /\ Len(accounts) = 2
     /\ startIndex = 0
     /\ obs.first429SecondOk)
      => /\ pc = "returned"
         /\ rotations = 1
         /\ attempts = 2
         /\ active_index = 1

(* C7: when get_valid_token returns no token the invocation raises in the  *)
(* same step: nothing is requested in that attempt, the pool is neither    *)
(* rotated nor written, and no attempt follows.                            *)
C7_NoTokenRaisesAtOnce ==
    /\ [][(pc = "loop" /\ lastOp'.name = "get_valid_token" /\ ~lastOp'.ret.ok)
            => /\ pc' = "raised"
               /\ err' = "no_token"
               /\ contacted' = <<>>
               /\ rotations' = rotations
               /\ accounts' = accounts
               /\ file' = file]_vars
    /\ [][pc = "raised"
            => (pc' = "raised" /\ attempts' = attempts /\ contacted' = contacted
                /\ rotations' = rotations)]_vars

(* the refresh of the current account failed while the other account of    *)
(* the pool holds a token that is not due                                  *)
C7_Witness ==
    /\ pc = "raised"
    /\ err = "no_token"
    /\ lastOp.refresh = "fail"
    /\ Len(accounts) = 2
    /\ \E k \in 1..2 : k # Pos /\ now < accounts[k].expires - 60

(* C8: a get_valid_token call made while now < expires - 60 for the        *)
(* current account calls no refresh, returns the stored access token and   *)
(* project id, and leaves accounts, cursor and file as they were.          *)
C8_FreshTokenLeavesPoolAlone ==
    [][(lastOp'.name = "get_valid_token" /\ Pos # 0
          /\ now < accounts[Pos].expires - 60)
         => /\ lastOp'.refresh = "none"
            /\ lastOp'.ret = [ok |-> TRUE, access |-> accounts[Pos].access,
                              project |-> accounts[Pos].projectId]
            /\ accounts' = accounts
            /\ active_index' = active_index
            /\ file' = file]_vars

(* C9: a get_valid_token call made while now >= expires - 60 calls refresh *)
(* once; on success the current account holds the new access token and     *)
(* expires = clock + expires_in, the file holds the pool, and the call     *)
(* returns the new token; a call that finds a refreshed token not yet due  *)
(* returns it without a refresh.                                           *)
C9_DueTokenIsRefreshedOnce ==
    /\ [][(lastOp'.name = "get_valid_token" /\ Pos # 0
             /\ now >= accounts[Pos].expires - 60)
            => /\ lastOp'.refresh \in {"ok", "fail"}
               /\ lastOp'.refresh = "ok" <=> lastOp'.resp.ok
               /\ lastOp'.resp.ok
                    => /\ Len(accounts') = Len(accounts)
                       /\ accounts'[Pos].access = lastOp'.resp.access_token
                       /\ accounts'[Pos].expires = now' + lastOp'.resp.expires_in
                       /\ CurrentPos(accounts', active_index') = Pos
                       /\ file'.kind = "ok"
                       /\ file'.accounts = accounts'
                       /\ file'.activeIndex = active_index'
                       /\ lastOp'.ret.ok
                       /\ lastOp'.ret.access = lastOp'.resp.access_token]_vars
    /\ [][(lastOp'.name = "get_valid_token" /\ Pos # 0
             /\ accounts[Pos].access > 100
             /\ now < accounts[Pos].expires - 60)
            => /\ lastOp'.refresh = "none"
               /\ lastOp'.ret.ok
               /\ lastOp'.ret.access = accounts[Pos].access]_vars

(* a call that returned a refreshed token without refreshing *)
C9_Witness ==
    /\ lastOp.name = "get_valid_token"
    /\ lastOp.refresh = "none"
    /\ lastOp.ret.ok
    /\ lastOp.ret.access > 100
    /\ Pos # 0
    /\ file.kind = "ok"
    /\ file.accounts = accounts

(* C10: a get_valid_token call whose refresh fails returns no token and    *)
(* leaves accounts, cursor and file as they were.                          *)
C10_FailedRefreshMutatesNothing ==
    [][(lastOp'.name = "get_valid_token" /\ lastOp'.refresh = "fail")
         => /\ ~lastOp'.ret.ok
            /\ accounts' = accounts
            /\ active_index' = active_index
            /\ file' = file]_vars

(* C11: whenever the pool holds an account, the cursor in memory and the   *)
(* activeIndex of the file lie in 0 .. len(accounts) - 1, right after      *)
(* load() and after every sequence of pool operations.                     *)
C11_CursorInRange ==
    /\ [](accounts # <<>>
            => (0 <= active_index /\ active_index < Len(accounts)))
    /\ [][(file' # file /\ accounts' # <<>>)
            => (0 <= file'.activeIndex /\ file'.activeIndex < Len(accounts'))]_vars

(* C12: a file whose activeIndex is >= len(accounts) is loaded as if the   *)
(* cursor were 0: the first get_current_account or get_valid_token uses    *)
(* accounts[0], and a rotate_account made right after the load leaves the  *)
(* cursor where a rotation from 0 leaves it.                               *)
C12_StaleCursorLoadsAsZero ==
    [][(lastOp.name = "load" /\ accounts # <<>> /\ active_index >= Len(accounts))
         => /\ lastOp'.name = "get_current_account"
                 => (active_index' = 0 /\ lastOp'.ret.access = 1)
            /\ (lastOp'.name = "get_valid_token" /\ lastOp'.ret.ok)
                 => (active_index' = 0 /\ lastOp'.ret.project = accounts[1].projectId)
            /\ lastOp'.name = "rotate_account"
                 => active_index' = 1 % Len(accounts)]_vars

(* C13: on a pool of K >= 1 accounts every rotate_account call sets the    *)
(* cursor to (cursor + 1) mod K, and K calls in a row make each of the K   *)
(* accounts current exactly once and bring the cursor back to where it     *)
(* was; on an empty pool the call leaves cursor and file as they were.     *)
C13_RotationIsACycle ==
    /\ [](Len(rotLog.seen) = Len(accounts) /\ accounts # <<>>
            => /\ {rotLog.seen[i] : i \in 1..Len(accounts)} = 1..Len(accounts)
               /\ active_index = rotLog.start)
    /\ [][lastOp'.name = "rotate_account"
            => IF accounts = <<>>
               THEN active_index' = active_index /\ file' = file
               ELSE active_index' = (active_index + 1) % Len(accounts)]_vars

(* C14: when a pool operation that changed accounts or cursor, or that     *)
(* added, rotated or refreshed, has returned, the file holds exactly the   *)
(* accounts and the activeIndex of the pool in memory.                     *)
C14_FileFollowsMemory ==
    /\ [][(accounts' # accounts \/ active_index' # active_index)
            => file' = Save(accounts', active_index')]_vars
    /\ []((\/ lastOp.name = "add_account"
           \/ lastOp.name = "rotate_account" /\ accounts # <<>>
           \/ lastOp.refresh = "ok")
            => file = Save(accounts, active_index))

(* position of the current account of the second AccountManager *)
OtherPos == CurrentPos(other.accounts, other.active_index)

(* the file holds a pool with an account and a cursor in range *)
FileInRange ==
    /\ file.kind = "ok"
    /\ file.accounts # <<>>
    /\ 0 <= file.activeIndex
    /\ file.activeIndex < Len(file.accounts)

(* C15: with several callers of the pool no rotation or append is lost or  *)
(* applied to an older copy: a rotation written to the file advances the   *)
(* cursor the file held, an append written to the file extends the pool    *)
(* the file held, whichever client wrote last; and the 429 of a request    *)
(* whose account is no longer the current one does not rotate again.       *)
C15_NoLostPoolUpdate ==
    /\ [][(FileInRange /\ lastOp'.name \in {"rotate_account", "other.rotate_account"})
            => /\ file'.accounts = file.accounts
               /\ file'.activeIndex = (file.activeIndex + 1) % Len(file.accounts)]_vars
    /\ [][(FileInRange /\ lastOp'.name \in {"add_account", "other.add_account"})
            => /\ Len(file'.accounts) = Len(file.accounts) + 1
               /\ SubSeq(file'.accounts, 1, Len(file.accounts)) = file.accounts
               /\ file'.activeIndex = file.activeIndex]_vars
    /\ [][\A r \in Requests :
            (held[r] # 0 /\ held[r] # Pos /\ lastOp'.name = "rotate_account")
              => active_index' = active_index]_vars

(* the account with refresh token rt, as the file holds it, is not due *)
FreshInFile(rt) ==
    /\ file.kind = "ok"
    /\ \E k \in 1..Len(file.accounts) :
         /\ file.accounts[k].refreshToken = rt
         /\ now < file.accounts[k].expires - 60

(* C16: of the callers of get_valid_token that find an account due, one    *)
(* refreshes it: a caller that comes after the refreshed token was written *)
(* gets that token and calls no refresh, whichever client it runs on.      *)
C16_RefreshedOnceForAll ==
    /\ [][(/\ lastOp'.name = "get_valid_token"
           /\ Pos # 0
           /\ FreshInFile(accounts[Pos].refreshToken))
            => lastOp'.refresh = "none"]_vars
    /\ [][(/\ lastOp'.name = "other.get_valid_token"
           /\ OtherPos # 0
           /\ FreshInFile(other.accounts[OtherPos].refreshToken))
            => lastOp'.refresh = "none"]_vars

(* C17: the callback wait is bounded: once a handle_request() call has     *)
(* timed out with no request carrying code and state received, the wait    *)
(* is over, and the login then returns without an account.                 *)
C17_CallbackWaitIsBounded ==
    /\ (oauth.timeouts >= 1 /\ ~oauth.code) => oauth.pc # "wait"
    /\ (oauth.pc = "done" /\ ~oauth.code) => oauth.result = "None"

(* the texts of the events of a sequence of lines that carry one, in order *)
RECURSIVE Texts(_)
Texts(ls) ==
    IF ls = <<>> THEN <<>>
    ELSE (IF CarriesText(Head(ls)) THEN <<Head(ls).text>> ELSE <<>>) \o Texts(Tail(ls))

(* C18: for every sequence of lines of a 2xx response, what the line loop  *)
(* has yielded after reading some of them is, in order and one unit per    *)
(* event, the non-empty text of candidates[0].content.parts[0] of the      *)
(* well-formed data: events read; no line, be it empty, without prefix,    *)
(* malformed or carrying a finishReason, ends the loop before the lines    *)
(* end.                                                                    *)
C18_OutputIsTheTextsOfTheEvents ==
    /\ parsed.out = Texts(SubSeq(body, 1, parsed.pos))
    /\ ~parsed.open => parsed.pos = Len(body)

(* a text event with a finishReason was followed by a second text event,   *)
(* and both texts were yielded                                             *)
C18_Witness ==
    /\ Len(body) = 2
    /\ body[1].finish
    /\ body[1].text = 1
    /\ body[2].text = 2
    /\ ~parsed.open
    /\ parsed.out = <<1, 2>>

(* C19: within one invocation the cursor changes only in the step that     *)
(* receives a 429; a status >= 500 or a connection failure leaves cursor   *)
(* and rotation count alone and moves to the next endpoint or, after the   *)
(* last one, to the next attempt, which gets the token of the same         *)
(* account.                                                                *)
C19_CursorMovesOnlyOn429 ==
    /\ [][active_index' # active_index
            => (pc = "endpoint" /\ lastResp'.kind = "429")]_vars
    /\ [][(pc = "endpoint" /\ lastResp'.kind \in {"5xx", "connect_error"})
            => /\ active_index' = active_index
               /\ rotations' = rotations
               /\ IF ep < 3 THEN pc' = "endpoint" /\ ep' = ep + 1
                  ELSE pc' = "loop"]_vars
    /\ [][(/\ pc = "loop"
           /\ attempts >= 1
           /\ last_error \in {"5xx", "exception"}
           /\ lastOp'.name = "get_valid_token"
           /\ lastOp'.ret.ok)
            => (token'.project = token.project /\ active_index' = active_index)]_vars

(* C20: the budget is 3 * N for the N >= 1 accounts the pool held when     *)
(* max_retries was computed and stays so while accounts are added; the     *)
(* invocation makes at most 3 * N attempts; a request is made only inside  *)
(* an attempt, to the next endpoint of the list, at most 3 per attempt,    *)
(* hence at most 3 * N * 3 in all; and once in its loop the invocation     *)
(* ends by returning or raising.                                           *)
C20_BudgetIsCapturedOnce ==
    /\ [](pc \in {"loop", "endpoint", "stream", "returned"}
            => /\ nStart >= 1
               /\ max_retries = 3 * nStart
               /\ attempts <= 3 * nStart
               /\ Len(contacted) <= Len(CODE_ASSIST_ENDPOINT_FALLBACKS))
    /\ [][contacted' # contacted
            => \/ /\ pc = "endpoint"
                  /\ attempts' = attempts
                  /\ attempts >= 1
                  /\ contacted' = Append(contacted, CODE_ASSIST_ENDPOINT_FALLBACKS[ep])
               \/ /\ contacted' = <<>>
                  /\ attempts' = attempts + 1]_vars
    /\ [][lastResp' # lastResp /\ lastResp'.kind # "stream_error"
            => Len(contacted') = Len(contacted) + 1]_vars
    /\ (pc = "loop") ~> Final

(* the budget of a pool of one account was used up, three requests in the  *)
(* last attempt, while a second account had been added                     *)
C20_Witness ==
    /\ pc = "raised"
    /\ err = "exhausted"
    /\ nStart = 1
    /\ Len(accounts) = 2
    /\ attempts = 3
    /\ Len(contacted) = 3

(* C21: add_account appends the record as the last element of accounts,    *)
(* keeps the order and content of the records already there, leaves the    *)
(* cursor as it was, so that a pool that had a current account has the     *)
(* same one afterwards, and writes the pool to the file.                   *)
C21_AddAccountAppendsOnly ==
    [][lastOp'.name = "add_account"
         => /\ Len(accounts') = Len(accounts) + 1
            /\ SubSeq(accounts', 1, Len(accounts)) = accounts
            /\ accounts'[Len(accounts')].refreshToken = Len(accounts) + 1
            /\ active_index' = active_index
            /\ Pos # 0 => CurrentPos(accounts', active_index') = Pos
            /\ file' = Save(accounts', active_index')]_vars

(* C22: a login that fails, by a callback without code or state, a state   *)
(* that does not carry the verifier, a failed token exchange or a grant    *)
(* without refresh token, yields no account, and no step of a login but    *)
(* the adoption of an account changes accounts, cursor or file; every      *)
(* record the login flow appends has a non-empty refreshToken and is in    *)
(* the file when the step ends.                                            *)
C22_FailedLoginAddsNothing ==
    /\ [](oauth.result = "account"
            => /\ oauth.code
               /\ oauth.state = "match"
               /\ oauth.exchange = "grant"
               /\ oauth.refresh_token > 0)
    /\ [][(oauth' # oauth /\ ~(oauth.pc = "done" /\ oauth.result = "account"))
            => /\ accounts' = accounts
               /\ active_index' = active_index
               /\ file' = file]_vars
    /\ [][accounts' # accounts
            => /\ oauth.pc = "done"
               /\ oauth.result = "account"
               /\ Len(accounts') = Len(accounts) + 1
               /\ SubSeq(accounts', 1, Len(accounts)) = accounts
               /\ accounts'[Len(accounts')].refreshToken > 0
               /\ file' = Save(accounts', active_index')]_vars

(* after a first login was adopted, a second one got a grant with an empty *)
(* refresh token and the pool is as the first login left it                *)
C22_Witness ==
    /\ pc = "auth"
    /\ oauth.pc = "idle"
    /\ oauth.result = "None"
    /\ oauth.exchange = "grant"
    /\ oauth.refresh_token = 0
    /\ Len(accounts) = 1
    /\ accounts[1].refreshToken = 1
    /\ file = Save(accounts, active_index)

(* position of the account that was current when the invocation started *)
StartPos == CurrentPos(accounts, startIndex)

(* C23: on a pool of N >= 1 accounts with fresh tokens and 429 for every   *)
(* request, every attempt sends one request, to the first endpoint, and    *)
(* rotates once; attempt k uses the account k - 1 places after the one the *)
(* invocation started on, so that in 3 * N attempts every account is used  *)
(* 3 times; the clock is not advanced by a 429; and the invocation ends    *)
(* only by raising exhaustion, after exactly 3 * N attempts and rotations, *)
(* the last error being the 429 and the cursor on the account it started   *)
(* on.                                                                     *)
C23_All429UsesEveryAccountThrice ==
    /\ [](/\ Len(contacted) <= 1
          /\ (pc = "loop" /\ attempts >= 1)
               => (contacted = <<"daily">> /\ rotations = attempts)
          /\ pc # "returned"
          /\ attempts <= 3 * Len(accounts)
          /\ pc = "raised"
               => /\ err = "exhausted"
                  /\ attempts = 3 * Len(accounts)
                  /\ rotations = 3 * Len(accounts)
                  /\ last_error = "429"
                  /\ lastResp.kind = "429"
                  /\ Pos = StartPos)
    /\ [][attempts' = attempts + 1
            => /\ token'.ok
               /\ token'.project = ((StartPos - 1 + attempts) % Len(accounts)) + 1]_vars
    /\ [][lastResp'.kind = "429" => now' = now]_vars

====
